---- MODULE Spec2Model ----
(***************************************************************************)
(* Model of alvr/filesystem/src/lib.rs: the installation Layout, the       *)
(* three entry points that resolve it, the pressure-vessel path            *)
(* translation and the two process-wide Lazy values IS_PRESSURE_VESSEL     *)
(* and LAYOUT_FROM_ENV.                                                    *)
(*                                                                         *)
(* A path is the record [abs, comps]: whether it starts at the filesystem  *)
(* root and its sequence of components, which is what std::path compares.  *)
(* Callers are threads; forcing a Lazy is split into the steps at which    *)
(* another thread can interleave (claim the cell, run the initializer,     *)
(* publish the value).                                                     *)
(***************************************************************************)
EXTENDS Integers, Sequences, FiniteSets, TLC

\* ---------------------------------------------------------------- bounds
NumThreads == 2
MaxCalls == 3

Threads == 1..NumThreads

\* ---------------------------------------------------------------- values
None == [some |-> FALSE]
Some(v) == [some |-> TRUE, val |-> v]

Panic == [ok |-> FALSE]
Ok(v) == [ok |-> TRUE, val |-> v]

P(a, c) == [abs |-> a, comps |-> c]

EmptyPath == P(FALSE, <<>>)
RunHost == P(TRUE, <<"run", "host">>)

\* paths callers pass to filesystem_layout_from_dashboard_exe
Args ==
  { P(TRUE, <<"opt", "alvr", "bin", "alvr_dashboard">>),
    P(TRUE, <<"ALVR Dashboard.exe">>) }

\* paths callers pass to filesystem_layout_from_openvr_driver_root_dir
DriverArgs == { P(TRUE, <<"opt", "alvr", "lib64", "alvr">>) }

\* paths callers pass to pressure_vessel_path
PvArgs == { P(TRUE, <<"opt", "app">>) }

\* values of the build-time variable `root`
RootOverrides == { None, Some(P(TRUE, <<"opt", "app">>)), Some(P(FALSE, <<"alvr">>)) }

FieldNames ==
  { "executables_dir", "libraries_dir", "static_resources_dir", "config_dir",
    "log_dir", "openvr_driver_root_dir", "vrcompositor_wrapper_dir",
    "firewall_script_dir", "firewalld_config_dir", "ufw_config_dir",
    "vulkan_layer_manifest_dir" }

NoSub == [n \in FieldNames |-> None]
ConfigSub == [NoSub EXCEPT !["config_dir"] = Some(P(TRUE, <<"etc", "alvr">>))]
FullSub ==
  [NoSub EXCEPT !["config_dir"] = Some(P(TRUE, <<"etc", "alvr">>)),
                !["log_dir"] = Some(P(TRUE, <<"var", "log">>)),
                !["executables_dir"] = Some(P(TRUE, <<"usr", "bin">>)),
                !["libraries_dir"] = Some(P(FALSE, <<"lib">>))]

\* what dirs::config_dir() and dirs::home_dir() return in this process
DirsFound ==
  [config |-> Some(P(TRUE, <<"home", "u", ".config">>)), home |-> Some(P(TRUE, <<"home", "u">>))]
DirsNoHome == [DirsFound EXCEPT !.home = None]
DirsNoConfig == [DirsFound EXCEPT !.config = None]

\* the builds and platforms explored: the per-field overrides and the lookups
Platforms ==
  { [sub |-> NoSub, dirs |-> DirsFound],
    [sub |-> NoSub, dirs |-> DirsNoConfig],
    [sub |-> ConfigSub, dirs |-> DirsNoHome],
    [sub |-> FullSub, dirs |-> DirsNoConfig] }

\* /run/host/container-manager: absent, present but unreadable, or its text
PressureVessel == <<"p","r","e","s","s","u","r","e","-","v","e","s","s","e","l">>
ExtraText == <<"-","e","x","t","r","a","-","t","e","x","t">>
OtherRuntime == <<"o","t","h","e","r","-","r","u","n","t","i","m","e">>
Absent == [exists |-> FALSE, readable |-> FALSE, text |-> <<>>]
Unreadable == [exists |-> TRUE, readable |-> FALSE, text |-> <<>>]
File(t) == [exists |-> TRUE, readable |-> TRUE, text |-> t]
Markers ==
  { Absent, Unreadable, File(PressureVessel \o ExtraText), File(OtherRuntime) }

OsSet == { "linux", "windows", "macos" }
LayoutOps == { "dashboard_exe", "openvr_driver_root_dir", "invalid" }

VARIABLES
  targetOs,     \* cfg!(target_os), cfg!(windows)
  optionEnv,    \* option_env!: [root, sub[field]]
  dirs,         \* results of the dirs crate lookups
  marker,       \* the file /run/host/container-manager
  pvCell,       \* IS_PRESSURE_VESSEL
  layoutCell,   \* LAYOUT_FROM_ENV
  pc,           \* per thread: position in the call
  call,         \* per thread: [op, arg] of the call in progress
  calls,        \* number of calls started
  results,      \* returned values: [op, arg, res]
  exeLog,       \* dashboard_exe() applied to returned Layouts
  newLog,       \* invocations of Layout::new: [op, arg, src, translated, root]
  initRuns,     \* how often each initializer closure was entered
  observed      \* values readers got from each Lazy

vars == << targetOs, optionEnv, dirs, marker, pvCell, layoutCell, pc, call,
           calls, results, exeLog, newLog, initRuns, observed >>

build == << targetOs, optionEnv, dirs >>
ghost == << results, exeLog, newLog, initRuns, observed >>

IsLinux == targetOs = "linux"
IsWindows == targetOs = "windows"

\* ------------------------------------------------------------- std::path
\* Path::join / PathBuf::push: an absolute argument replaces the base
Join(base, arg) ==
  IF arg.abs THEN arg ELSE P(base.abs, base.comps \o arg.comps)

\* Path::parent: None for a path that is empty or ends in the root
Parent(p) ==
  IF p.comps = <<>> THEN None
  ELSE Some(P(p.abs, SubSeq(p.comps, 1, Len(p.comps) - 1)))

\* str::starts_with
StartsWith(s, prefix) ==
  /\ Len(s) >= Len(prefix)
  /\ SubSeq(s, 1, Len(prefix)) = prefix

UnwrapOr(o, d) == IF o.some THEN o.val ELSE d
OrOpt(a, b) == IF a.some THEN a ELSE b
Rel(c) == P(FALSE, c)

\* ---------------------------------------------------------------- Layout
dashboard_fname == IF IsWindows THEN "ALVR Dashboard.exe" ELSE "alvr_dashboard"

\* root.join(option_env!(name).unwrap_or(default))
SubDir(root, name, default) ==
  Join(root, UnwrapOr(optionEnv.sub[name], Rel(default)))

ConfigDirOptOrDefault ==
  Some(UnwrapOr(OrOpt(optionEnv.sub["config_dir"],
                      IF dirs.config.some THEN Some(Join(dirs.config.val, Rel(<<"alvr">>)))
                      ELSE None),
                EmptyPath))

\* option_env!("config_dir").map(PathBuf::from).or(dirs::config_dir().map(join "alvr"))
ConfigDirOpt ==
  OrOpt(optionEnv.sub["config_dir"],
        IF dirs.config.some THEN Some(Join(dirs.config.val, Rel(<<"alvr">>))) ELSE None)

\* option_env!("log_dir").map(PathBuf::from).or(dirs::home_dir())
LogDirOpt == OrOpt(optionEnv.sub["log_dir"], dirs.home)

FlatLayoutBin(root) ==
  [n \in FieldNames |-> IF n = "executables_dir" THEN Join(root, Rel(<<"bin">>)) ELSE root]

\* the non-linux branch of Layout::new
FlatLayout(root) == [n \in FieldNames |-> root]

\* the linux branch of Layout::new, after both unwraps succeeded
FhsLayout(root, config_dir, log_dir) ==
  [ executables_dir |-> SubDir(root, "executables_dir", <<"bin">>),
    libraries_dir |-> SubDir(root, "libraries_dir", <<"lib64">>),
    static_resources_dir |-> SubDir(root, "static_resources_dir", <<"share", "alvr">>),
    config_dir |-> config_dir,
    log_dir |-> log_dir,
    openvr_driver_root_dir |-> SubDir(root, "openvr_driver_root_dir", <<"lib64", "alvr">>),
    vrcompositor_wrapper_dir |-> SubDir(root, "vrcompositor_wrapper_dir", <<"libexec", "alvr">>),
    firewall_script_dir |-> SubDir(root, "firewall_script_dir", <<"libexec", "alvr">>),
    firewalld_config_dir |-> SubDir(root, "firewalld_config_dir", <<"libexec", "alvr">>),
    ufw_config_dir |-> SubDir(root, "ufw_config_dir", <<"libexec", "alvr">>),
    vulkan_layer_manifest_dir |->
      SubDir(root, "vulkan_layer_manifest_dir", <<"share", "vulkan", "explicit_layer.d">>) ]

\* Layout::new: Ok(layout), or Panic when an unwrap() hits None
LayoutNew(root) ==
  IF IsLinux
  THEN IF ConfigDirOpt.some /\ LogDirOpt.some
       THEN Ok(FhsLayout(root, ConfigDirOpt.val, LogDirOpt.val))
       ELSE Panic
  ELSE Ok(FlatLayout(root))

\* Layout::dashboard_exe
dashboard_exe(layout) == Join(layout.executables_dir, Rel(<<dashboard_fname>>))

\* ------------------------------------------------- container translation
\* the initializer of IS_PRESSURE_VESSEL, given what exists() and
\* read_to_string() returned
IsPressureVesselInit(exists, read) ==
  IF exists /\ read.some THEN StartsWith(read.val, PressureVessel) ELSE FALSE

\* fs::read_to_string on the marker file: Err when it is not there (any
\* more) or cannot be read as text
ReadToString(f) == IF f.exists /\ f.readable THEN Some(f.text) ELSE None

\* pressure_vessel_path; flag is *IS_PRESSURE_VESSEL (read on linux only)
pressure_vessel_path(flag, path) ==
  IF IsLinux
  THEN IF flag THEN Join(RunHost, path) ELSE path
  ELSE path

\* --------------------------------------------------------- root resolver
RootFromDriverDirParent(dir) ==
  IF IsLinux
  THEN IF Parent(dir).some THEN Parent(Parent(dir).val) ELSE None
  ELSE Parent(dir)

RootFromDashboardExeFhs(path) ==
  IF Parent(path).some THEN Parent(Parent(path).val) ELSE None

\* root of filesystem_layout_from_dashboard_exe; None when an unwrap() panics
RootFromDashboardExe(path) ==
  IF IsLinux
  THEN IF Parent(path).some THEN Parent(Parent(path).val) ELSE None
  ELSE Parent(path)

\* root of filesystem_layout_from_openvr_driver_root_dir
RootFromDriverDir(dir) ==
  IF IsLinux
  THEN IF Parent(dir).some THEN Parent(Parent(dir).val) ELSE None
  ELSE Some(dir)

\* the closure given to unwrap_or_else in each entry point
RootOf(op, arg) ==
  CASE op = "dashboard_exe" -> RootFromDashboardExe(arg)
    [] op = "openvr_driver_root_dir" -> RootFromDriverDir(arg)
    [] op = "invalid" -> Some(EmptyPath)

Derived(op, arg) ==
  IF RootOf(op, arg).some THEN LayoutNew(RootOf(op, arg).val) ELSE Panic

EntryResultOwnFirst(cached, op, arg) ==
  IF op # "invalid" /\ Derived(op, arg).ok THEN Derived(op, arg)
  ELSE IF cached.some THEN Ok(cached.val) ELSE Derived(op, arg)

\* LAYOUT_FROM_ENV.clone().unwrap_or_else(|| ...)
EntryResult(cached, op, arg) ==
  IF cached.some THEN Ok(cached.val) ELSE Derived(op, arg)

LayoutFromEnvRootOrEmpty == Some(UnwrapOr(optionEnv.root, EmptyPath))

\* option_env!("root"), as the initializer of LAYOUT_FROM_ENV sees it
LayoutFromEnvRoot == optionEnv.root

EnvLayoutRootRaw(flag) ==
  [root |-> LayoutFromEnvRoot.val, translated |-> FALSE]

\* Layout::new(&pressure_vessel_path(root)) in the initializer: the root
\* handed to Layout::new and whether it went through pressure_vessel_path
EnvLayoutRoot(flag) ==
  [root |-> pressure_vessel_path(flag, LayoutFromEnvRoot.val), translated |-> TRUE]

\* Layout::new(&root) in an entry point's closure: no translation
ArgLayoutRoot(op, arg) ==
  [root |-> RootOf(op, arg).val, translated |-> FALSE]

\* ------------------------------------------------------------------ Init
Init ==
  /\ targetOs \in OsSet
  /\ \E r \in RootOverrides, p \in (IF IsLinux THEN Platforms ELSE {[sub |-> NoSub, dirs |-> DirsFound]}) :
       /\ optionEnv = [root |-> r, sub |-> p.sub]
       /\ dirs = p.dirs
  /\ marker \in IF IsLinux THEN Markers ELSE {Absent}
  /\ pvCell = [state |-> "incomplete", val |-> FALSE]
  /\ layoutCell = [state |-> "incomplete", val |-> None]
  /\ pc = [t \in Threads |-> "idle"]
  /\ call = [t \in Threads |-> [op |-> "invalid", arg |-> EmptyPath]]
  /\ calls = 0
  /\ results = {}
  /\ exeLog = {}
  /\ newLog = {}
  /\ initRuns = [pv |-> 0, layout |-> 0]
  /\ observed = [pv |-> {}, layout |-> {}]

\* --------------------------------------------------------------- actions
NoCall == [op |-> "invalid", arg |-> EmptyPath]

\* the call of thread t returns (or unwinds)
Return(t) ==
  /\ pc' = [pc EXCEPT ![t] = "idle"]
  /\ call' = [call EXCEPT ![t] = NoCall]

Goto(t, label) ==
  /\ pc' = [pc EXCEPT ![t] = label]
  /\ UNCHANGED call

Result(t, r) == [op |-> call[t].op, arg |-> call[t].arg, res |-> r]

NewEntry(t, src, lr) ==
  [src |-> src, op |-> call[t].op, arg |-> call[t].arg,
   translated |-> lr.translated, root |-> lr.root, out |-> LayoutNew(lr.root)]

\* a thread calls one of the three entry points
CallEntry(t, op, arg) ==
  /\ pc[t] = "idle"
  /\ calls < MaxCalls
  /\ op \in LayoutOps
  /\ arg \in (CASE op = "dashboard_exe" -> Args
                [] op = "openvr_driver_root_dir" -> DriverArgs
                [] op = "invalid" -> {EmptyPath})
  /\ calls' = calls + 1
  /\ call' = [call EXCEPT ![t] = [op |-> op, arg |-> arg]]
  /\ pc' = [pc EXCEPT ![t] = "force_layout"]
  /\ UNCHANGED << build, marker, pvCell, layoutCell, ghost >>

\* a thread calls the public pressure_vessel_path
CallPressureVesselPath(t, path) ==
  /\ pc[t] = "idle"
  /\ calls < MaxCalls
  /\ calls' = calls + 1
  /\ IF IsLinux
     THEN /\ call' = [call EXCEPT ![t] = [op |-> "pressure_vessel_path", arg |-> path]]
          /\ pc' = [pc EXCEPT ![t] = "force_pv"]
          /\ UNCHANGED results
     ELSE /\ results' = results \cup
                {[op |-> "pressure_vessel_path", arg |-> path,
                  res |-> Ok(pressure_vessel_path(FALSE, path))]}
          /\ UNCHANGED << pc, call >>
  /\ UNCHANGED << build, marker, pvCell, layoutCell, exeLog, newLog, initRuns, observed >>

\* LAYOUT_FROM_ENV deref in a cell found in the given state: take the value
\* and finish the entry point, panic on a poisoned Lazy, or claim the
\* initialization.  ForceLayout waits while another thread initializes.
ForceLayoutWhen(t, state) ==
  /\ CASE state = "complete" ->
            /\ observed' = [observed EXCEPT !.layout = @ \cup {layoutCell.val}]
            /\ results' = results \cup
                 {Result(t, EntryResult(layoutCell.val, call[t].op, call[t].arg))}
            /\ newLog' =
                 IF ~layoutCell.val.some /\ RootOf(call[t].op, call[t].arg).some
                 THEN newLog \cup {NewEntry(t, "arg", ArgLayoutRoot(call[t].op, call[t].arg))}
                 ELSE newLog
            /\ Return(t)
            /\ UNCHANGED layoutCell
       [] state = "poisoned" ->
            /\ results' = results \cup {Result(t, Panic)}
            /\ Return(t)
            /\ UNCHANGED << layoutCell, newLog, observed >>
       [] state = "incomplete" ->
            /\ layoutCell' = [layoutCell EXCEPT !.state = "running"]
            /\ Goto(t, "init_layout")
            /\ UNCHANGED << results, newLog, observed >>
  /\ UNCHANGED << build, marker, pvCell, calls, exeLog, initRuns >>

ForceLayoutNoWait(t) ==
  /\ pc[t] = "force_layout"
  /\ ForceLayoutWhen(t, IF layoutCell.state = "running" THEN "complete" ELSE layoutCell.state)

ForceLayout(t) ==
  /\ pc[t] = "force_layout"
  /\ layoutCell.state # "running"
  /\ ForceLayoutWhen(t, layoutCell.state)

\* store the initializer's outcome in LAYOUT_FROM_ENV
StoreLayout(r) ==
  layoutCell' = IF r.ok THEN [state |-> "complete", val |-> Some(r.val)]
                ELSE [state |-> "poisoned", val |-> None]

\* the initializer of LAYOUT_FROM_ENV starts: option_env!("root").map(...)
InitLayout(t) ==
  /\ pc[t] = "init_layout"
  /\ initRuns' = [initRuns EXCEPT !.layout = @ + 1]
  /\ IF ~LayoutFromEnvRoot.some
     THEN /\ layoutCell' = [state |-> "complete", val |-> None]
          /\ Goto(t, "force_layout")
          /\ UNCHANGED newLog
     ELSE IF IsLinux
     THEN /\ Goto(t, "force_pv")
          /\ UNCHANGED << layoutCell, newLog >>
     ELSE /\ StoreLayout(LayoutNew(EnvLayoutRoot(FALSE).root))
          /\ newLog' = newLog \cup {NewEntry(t, "override", EnvLayoutRoot(FALSE))}
          /\ Goto(t, "force_layout")
  /\ UNCHANGED << build, marker, pvCell, calls, results, exeLog, observed >>

\* IS_PRESSURE_VESSEL deref inside pressure_vessel_path (linux) in a cell
\* found in the given state, and the rest of the caller once it has the
\* flag.  ForcePV waits while another thread initializes.
ForcePVWhen(t, state) ==
  /\ CASE state = "complete" /\ call[t].op = "pressure_vessel_path" ->
            /\ observed' = [observed EXCEPT !.pv = @ \cup {pvCell.val}]
            /\ results' = results \cup
                 {Result(t, Ok(pressure_vessel_path(pvCell.val, call[t].arg)))}
            /\ Return(t)
            /\ UNCHANGED << pvCell, layoutCell, newLog >>
       [] state = "complete" /\ call[t].op # "pressure_vessel_path" ->
            /\ observed' = [observed EXCEPT !.pv = @ \cup {pvCell.val}]
            /\ StoreLayout(LayoutNew(EnvLayoutRoot(pvCell.val).root))
            /\ newLog' = newLog \cup {NewEntry(t, "override", EnvLayoutRoot(pvCell.val))}
            /\ Goto(t, "force_layout")
            /\ UNCHANGED << pvCell, results >>
       [] state = "incomplete" ->
            /\ pvCell' = [pvCell EXCEPT !.state = "running"]
            /\ Goto(t, "pv_exists")
            /\ UNCHANGED << layoutCell, results, newLog, observed >>
  /\ UNCHANGED << build, marker, calls, exeLog, initRuns >>

ForcePVRacy(t) ==
  /\ pc[t] = "force_pv"
  /\ ForcePVWhen(t, IF pvCell.state = "running" THEN "incomplete" ELSE pvCell.state)

ForcePV(t) ==
  /\ pc[t] = "force_pv"
  /\ pvCell.state # "running"
  /\ ForcePVWhen(t, pvCell.state)

\* the initializer of IS_PRESSURE_VESSEL: container_manager.exists()
PVExists(t) ==
  /\ pc[t] = "pv_exists"
  /\ initRuns' = [initRuns EXCEPT !.pv = @ + 1]
  /\ IF marker.exists
     THEN /\ Goto(t, "pv_read")
          /\ UNCHANGED pvCell
     ELSE /\ pvCell' = [state |-> "complete", val |-> IsPressureVesselInit(FALSE, None)]
          /\ Goto(t, "force_pv")
  /\ UNCHANGED << build, marker, layoutCell, calls, results, exeLog, newLog, observed >>

\* the initializer of IS_PRESSURE_VESSEL: read_to_string and starts_with
PVRead(t) ==
  /\ pc[t] = "pv_read"
  /\ pvCell' = [state |-> "complete",
                val |-> IsPressureVesselInit(TRUE, ReadToString(marker))]
  /\ Goto(t, "force_pv")
  /\ UNCHANGED << build, marker, layoutCell, calls, ghost >>

\* a caller applies dashboard_exe() to a Layout that
\* filesystem_layout_from_dashboard_exe returned
DashboardExe(r) ==
  /\ r \in results
  /\ r.op = "dashboard_exe"
  /\ r.res.ok
  /\ [arg |-> r.arg, exe |-> dashboard_exe(r.res.val)] \notin exeLog
  /\ exeLog' = exeLog \cup {[arg |-> r.arg, exe |-> dashboard_exe(r.res.val)]}
  /\ UNCHANGED << build, marker, pvCell, layoutCell, pc, call, calls,
                  results, newLog, initRuns, observed >>

\* the environment rewrites, removes or creates the marker file
ChangeMarker(m) ==
  /\ IsLinux
  /\ m \in Markers
  /\ m # marker
  /\ marker' = m
  /\ UNCHANGED << build, pvCell, layoutCell, pc, call, calls, ghost >>

Next ==
  \/ \E t \in Threads, op \in LayoutOps, arg \in Args \cup DriverArgs \cup {EmptyPath} :
        CallEntry(t, op, arg)
  \/ \E t \in Threads, path \in PvArgs : CallPressureVesselPath(t, path)
  \/ \E t \in Threads : ForceLayout(t)
  \/ \E t \in Threads : InitLayout(t)
  \/ \E t \in Threads : ForcePV(t)
  \/ \E t \in Threads : PVExists(t)
  \/ \E t \in Threads : PVRead(t)
  \/ \E r \in results : DashboardExe(r)
  \/ \E m \in Markers : ChangeMarker(m)

Spec == Init /\ [][Next]_vars

\* ---------------------------------------------------------------- claims
HasOverride == optionEnv.root.some
LayoutResults == { r \in results : r.op \in LayoutOps }
AllIdle == \A t \in Threads : pc[t] = "idle"

\* Path::file_name of a path whose last component is a normal one
FileNameIs(p, name) == p.comps # <<>> /\ p.comps[Len(p.comps)] = name

\* r is p with its last n components removed
Up(p, n, r) ==
  /\ Len(p.comps) >= n
  /\ r = P(p.abs, SubSeq(p.comps, 1, Len(p.comps) - n))

\* C1: with a build-time root override, every entry point returns the same
\* Layout whatever its path argument: all values returned by
\* filesystem_layout_from_dashboard_exe, _from_openvr_driver_root_dir and
\* filesystem_layout_invalid are equal.
C1_OverridePrecedence ==
  HasOverride => \A r1, r2 \in LayoutResults : r1.res = r2.res

C1_Witness ==
  /\ HasOverride
  /\ \E r1, r2, r3 \in LayoutResults :
       /\ r1.op = "dashboard_exe" /\ r2.op = "openvr_driver_root_dir" /\ r3.op = "invalid"
       /\ r1.arg # r2.arg
       /\ r1.res.ok /\ r2.res.ok /\ r3.res.ok

\* C2: on linux, once the marker file was detected as pressure-vessel,
\* pressure_vessel_path of an absolute path is that path under /run/host;
\* when it was not detected the path is returned unchanged.
C2_ContainerTranslation ==
  \A r \in results :
    (IsLinux /\ r.op = "pressure_vessel_path" /\ r.arg.abs /\ pvCell.state = "complete")
      => r.res.val = (IF pvCell.val THEN P(TRUE, RunHost.comps \o r.arg.comps) ELSE r.arg)

C4_RoundTrip ==
  ~IsLinux =>
    /\ \A r \in results :
         (r.op = "dashboard_exe" /\ FileNameIs(r.arg, dashboard_fname)) => r.res.ok
    /\ \A x \in exeLog : FileNameIs(x.arg, dashboard_fname) => x.exe = x.arg

\* C4 amended: on the flat family and with no build-time root override, for
\* every path p whose file name is dashboard_fname(),
\* filesystem_layout_from_dashboard_exe(p) returns a Layout and its
\* dashboard_exe() is p.
C4_RoundTripNoOverride ==
  (~IsLinux /\ ~HasOverride) =>
    /\ \A r \in results :
         (r.op = "dashboard_exe" /\ FileNameIs(r.arg, dashboard_fname)) => r.res.ok
    /\ \A x \in exeLog : FileNameIs(x.arg, dashboard_fname) => x.exe = x.arg

C4_Witness ==
  /\ ~IsLinux
  /\ ~HasOverride
  /\ \E x \in exeLog : FileNameIs(x.arg, dashboard_fname) /\ x.exe = x.arg

\* C5: two calls of the same entry point with the same argument return equal
\* results (equal Layouts, or a panic both times), with or without an
\* override and whatever was called in between.
C5_Idempotence ==
  \A r1, r2 \in LayoutResults :
    (r1.op = r2.op /\ r1.arg = r2.arg) => r1.res = r2.res

\* all calls have returned, all were entry-point calls, and there are fewer
\* distinct (call, result) pairs than calls: some call was made twice
C5_Witness ==
  /\ AllIdle
  /\ calls >= 3
  /\ results = LayoutResults
  /\ Cardinality(results) = 2
  /\ \E r \in results : r.res.ok

\* C6: each of the two Lazy initializers is entered at most once, all readers
\* of a Lazy get the value stored in it, and a stored value never changes
\* (also when the marker file changes afterwards).
C6_InitOnceState ==
  /\ initRuns.pv <= 1
  /\ initRuns.layout <= 1
  /\ Cardinality(observed.pv) <= 1
  /\ Cardinality(observed.layout) <= 1
  /\ observed.pv # {} => (pvCell.state = "complete" /\ observed.pv = {pvCell.val})
  /\ observed.layout # {} => (layoutCell.state = "complete" /\ observed.layout = {layoutCell.val})

C6_CellsFrozen ==
  /\ pvCell.state = "complete" => pvCell' = pvCell
  /\ layoutCell.state \in {"complete", "poisoned"} => layoutCell' = layoutCell

\* C6: initialize-once holds in every state, and no step changes a stored value
C6_InitOnce == []C6_InitOnceState /\ [][C6_CellsFrozen]_vars

\* two threads met in a first access: one runs the initializer of
\* LAYOUT_FROM_ENV, the other waits for it; and the marker file no longer
\* says what IS_PRESSURE_VESSEL cached
C6_Witness ==
  /\ \E t1, t2 \in Threads :
       /\ t1 # t2
       /\ pc[t1] = "force_layout"
       /\ pc[t2] = "force_pv"
  /\ layoutCell.state = "running"
  /\ initRuns.layout = 1
  /\ pvCell.state = "complete"
  /\ pvCell.val
  /\ observed.pv = {TRUE}
  /\ marker = Absent

\* C7: without an override, the root given to Layout::new is the path minus
\* its last two components on linux for both entry points; elsewhere the
\* path minus its last component for the dashboard executable, and the
\* given directory itself for the driver root.
C7_RootDerivation ==
  \A e \in newLog :
    e.src = "arg" =>
      /\ ~HasOverride
      /\ e.op = "dashboard_exe" =>
           IF IsLinux THEN Up(e.arg, 2, e.root) ELSE Up(e.arg, 1, e.root)
      /\ e.op = "openvr_driver_root_dir" =>
           IF IsLinux THEN Up(e.arg, 2, e.root) ELSE e.root = e.arg

C7_Witness ==
  \E e1, e2 \in newLog :
    /\ e1.src = "arg" /\ e1.op = "dashboard_exe"
    /\ e2.src = "arg" /\ e2.op = "openvr_driver_root_dir"
    /\ Len(e1.arg.comps) >= 2
    /\ e1.out.ok /\ e2.out.ok

\* C8 as stated: Layout::new never fails.
C8_LayoutNewTotal ==
  \A e \in newLog : e.out.ok

\* C8 amended: Layout::new returns a Layout for every root on the flat
\* family, and on linux exactly when a config directory (override or
\* dirs::config_dir()) and a log directory (override or dirs::home_dir())
\* are both available; otherwise it panics.
C8_LayoutNewTotalWhenDirs ==
  \A e \in newLog :
    e.out.ok <=>
      \/ ~IsLinux
      \/ /\ optionEnv.sub["config_dir"].some \/ dirs.config.some
         /\ optionEnv.sub["log_dir"].some \/ dirs.home.some

C8_Witness ==
  /\ IsLinux
  /\ ~dirs.config.some
  /\ \E e \in newLog : e.out.ok

\* C9: on the flat family every one of the 11 fields of Layout::new(R) is R.
C9_FlatAllRoot ==
  ~IsLinux =>
    \A e \in newLog :
      /\ e.out.ok
      /\ DOMAIN e.out.val = FieldNames
      /\ \A n \in FieldNames : e.out.val[n] = e.root

C9_Witness ==
  /\ ~IsLinux
  /\ \E e \in newLog : e.root.comps # <<>> /\ e.out.ok

\* C10: without an override LAYOUT_FROM_ENV never holds a Layout, and every
\* entry-point call returns the Layout derived from its own argument.
C10_NoShortCircuit ==
  ~HasOverride =>
    /\ ~layoutCell.val.some
    /\ observed.layout \subseteq {None}
    /\ \A r \in LayoutResults : r.res = Derived(r.op, r.arg)

C10_Witness ==
  /\ ~HasOverride
  /\ layoutCell.state = "complete"
  /\ \E r1, r2 \in LayoutResults :
       /\ r1.op = "dashboard_exe" /\ r2.op = "dashboard_exe"
       /\ r1.arg # r2.arg
       /\ r1.res # r2.res
       /\ r1.res.ok
====
